---- MODULE Spec2Model ----
(***************************************************************************)
(* Model of the multimodal ingestion / retrieval service.                  *)
(*                                                                         *)
(*   app/services/text_chunker.py          TextChunker                     *)
(*   app/store/vector_store.py             VectorStore (FAISS IndexFlatIP) *)
(*   app/store/metadata_store.py           Document / TextChunk tables     *)
(*   app/services/ingestion_orchestrator.py  process_audio_source          *)
(*   app/workers/tasks.py                  ingest_audio / ingest_video     *)
(*   app/retrieval/retriever.py            Retriever.retrieve_chunks       *)
(*   app/llm/answer_generator.py           AnswerGenerator.generate_answer *)
(*   app/api/routes_query.py, routes_task.py   query_system, get_task_status *)
(*                                                                         *)
(* Texts are sequences of one-character strings, so that len(), strip(),   *)
(* split() and rfind() are computed as Python computes them.  Times are    *)
(* whole seconds.  A vector is a record [zero, text, doc]: whether every    *)
(* entry is 0 (what numpy's any() looks at), the text it embeds (the       *)
(* embedding model is an opaque function of the text) and the Document     *)
(* whose run produced it; the dimension is kept by the batch and the index.*)
(***************************************************************************)
EXTENDS Integers, Sequences, FiniteSets, TLC

\* ------------------------------------------------------------------------
\* Python string primitives (0-based indices, half-open slices)
\* ------------------------------------------------------------------------

Min(S) == CHOOSE x \in S : \A y \in S : x <= y

Max(S) == CHOOSE x \in S : \A y \in S : x >= y

\* str.isspace() for one character
IsSpace(c) == c \in {" ", "\n", "\t", "\r"}

\* s[a:b] with 0 <= a, b already clipped by the callers
Slice(s, a, b) == IF b <= a THEN <<>> ELSE SubSeq(s, a + 1, b)

\* s.strip(): from the first to the last character that is not whitespace
Strip(s) ==
  LET keep == {i \in 1..Len(s) : ~IsSpace(s[i])}
  IN  IF keep = {} THEN <<>>
      ELSE SubSeq(s, CHOOSE i \in keep : \A j \in 1..(i - 1) : IsSpace(s[j]),
                     CHOOSE i \in keep : \A j \in (i + 1)..Len(s) : IsSpace(s[j]))

\* s.find(sub, start): the lowest index >= start where sub occurs, else -1
Find(s, sub, start) ==
  LET hits == {i \in start..(Len(s) - Len(sub)) : Slice(s, i, i + Len(sub)) = sub}
  IN  IF hits = {} THEN -1 ELSE Min(hits)

\* s.rfind(sub, start, end): the highest index i with start <= i and
\* i + len(sub) <= min(end, len(s)) where sub occurs, else -1
RFind(s, sub, start, end) ==
  LET stop == IF end > Len(s) THEN Len(s) ELSE end
      hits == {i \in start..(stop - Len(sub)) : Slice(s, i, i + Len(sub)) = sub}
  IN  IF hits = {} THEN -1 ELSE Max(hits)

RECURSIVE Split(_, _)
\* s.split(sep) for a non-empty separator
Split(s, sep) ==
  LET i == Find(s, sep, 0)
  IN  IF i = -1 THEN <<s>>
      ELSE <<Slice(s, 0, i)>> \o Split(Slice(s, i + Len(sep), Len(s)), sep)

\* [f(x) for x in xs if x.strip()] with f = strip
StripNonEmpty(xs) ==
  LET F[i \in 0..Len(xs)] ==
        IF i = 0 THEN <<>>
        ELSE IF Strip(xs[i]) = <<>> THEN F[i - 1] ELSE Append(F[i - 1], Strip(xs[i]))
  IN  F[Len(xs)]

\* ------------------------------------------------------------------------
\* TextChunker (text_chunker.py).  self is [chunk_size, chunk_overlap].
\* ------------------------------------------------------------------------

\* TextChunker.__init__
TextChunker(size, overlap) == [chunk_size |-> size, chunk_overlap |-> overlap]

\* get_text_chunker(): the process-wide chunker with the default parameters
get_text_chunker == TextChunker(500, 50)

NL2 == <<"\n", "\n">>

DotSp == <<".", " ">>

\* TextChunker._split_long_paragraph
split_long_paragraph(self, paragraph) ==
  LET sentences == StripNonEmpty(Split(paragraph, DotSp))
      \* loop state after the first i sentences: [mini, cur]
      F[i \in 0..Len(sentences)] ==
        IF i = 0 THEN [mini |-> <<>>, cur |-> <<>>]
        ELSE LET st == F[i - 1]
                 sentence == sentences[i]
             IN  IF Len(st.cur) + Len(sentence) + 2 <= self.chunk_size
                   THEN [st EXCEPT !.cur = st.cur \o sentence \o DotSp]
                 ELSE IF st.cur = <<>>
                   THEN [st EXCEPT !.mini = Append(st.mini, sentence \o <<".">>)]
                 ELSE [mini |-> Append(st.mini, Strip(st.cur)),
                       cur |-> sentence \o DotSp]
      fin == F[Len(sentences)]
  IN  IF sentences = <<>> THEN <<paragraph>>
      ELSE IF fin.cur # <<>> THEN Append(fin.mini, Strip(fin.cur)) ELSE fin.mini

\* TextChunker._get_overlap
get_overlap(self, chunk) ==
  LET overlap_point == IF Len(chunk) - self.chunk_overlap > 0
                         THEN Len(chunk) - self.chunk_overlap ELSE 0
      sentence_end == RFind(chunk, DotSp, 0, overlap_point)
      word_break == RFind(chunk, <<" ">>, 0, overlap_point + 10)
  IN  IF sentence_end # -1 THEN Slice(chunk, sentence_end + 2, Len(chunk))
      ELSE IF word_break # -1 THEN Slice(chunk, word_break + 1, Len(chunk))
      ELSE Slice(chunk, overlap_point, Len(chunk))

\* TextChunker.chunk_text
chunk_text(self, text) ==
  LET paragraphs == StripNonEmpty(Split(text, NL2))
      F[i \in 0..Len(paragraphs)] ==
        IF i = 0 THEN [chunks |-> <<>>, cur |-> <<>>]
        ELSE LET st == F[i - 1]
                 paragraph == paragraphs[i]
             IN  IF Len(st.cur) + Len(paragraph) + 1 <= self.chunk_size
                   THEN [st EXCEPT !.cur = st.cur \o paragraph \o NL2]
                 ELSE IF st.cur = <<>> /\ Len(paragraph) > self.chunk_size
                   THEN [st EXCEPT !.chunks =
                           st.chunks \o split_long_paragraph(self, paragraph)]
                 ELSE [chunks |-> Append(st.chunks, Strip(st.cur)),
                       cur |-> get_overlap(self, st.cur) \o paragraph \o NL2]
      fin == F[Len(paragraphs)]
  IN  IF text = <<>> THEN <<>>
      ELSE IF paragraphs = <<>> THEN <<>>
      ELSE IF fin.cur # <<>> THEN Append(fin.chunks, Strip(fin.cur)) ELSE fin.chunks

\* The values of current_chunk that chunk_text finalizes on overflow, in order:
\* each is appended stripped, and get_overlap of it seeds the next chunk
overflows(self, text) ==
  LET paragraphs == StripNonEmpty(Split(text, NL2))
      F[i \in 0..Len(paragraphs)] ==
        IF i = 0 THEN [finalized |-> <<>>, cur |-> <<>>]
        ELSE LET st == F[i - 1]
                 paragraph == paragraphs[i]
             IN  IF Len(st.cur) + Len(paragraph) + 1 <= self.chunk_size
                   THEN [st EXCEPT !.cur = st.cur \o paragraph \o NL2]
                 ELSE IF st.cur = <<>> /\ Len(paragraph) > self.chunk_size
                   THEN st
                 ELSE [finalized |-> Append(st.finalized, st.cur),
                       cur |-> get_overlap(self, st.cur) \o paragraph \o NL2]
  IN  F[Len(paragraphs)].finalized

\* One output triple of chunk_transcript
Triple(text, start, end) == [text |-> text, start |-> start, end |-> end]

\* A transcript chunker that seeds each new chunk with the overlap of the one
\* it finalized, as chunk_text does
chunk_transcript_overlapping(self, transcript_data) ==
  LET segments == transcript_data.segments
      plain == chunk_text(self, transcript_data.transcript)
      F[i \in 0..Len(segments)] ==
        IF i = 0
          THEN [chunks |-> <<>>, cur |-> <<>>, st |-> segments[1].start, en |-> 0]
        ELSE LET s == F[i - 1]
                 segment_text == Strip(segments[i].text)
             IN  IF Len(s.cur) + Len(segment_text) + 1 <= self.chunk_size
                   THEN [s EXCEPT !.cur = s.cur \o segment_text \o <<" ">>,
                                  !.en = segments[i].end]
                 ELSE [chunks |-> Append(s.chunks, Triple(Strip(s.cur), s.st, s.en)),
                       cur |-> get_overlap(self, s.cur) \o segment_text \o <<" ">>,
                       st |-> segments[i].start,
                       en |-> segments[i].end]
      fin == F[Len(segments)]
  IN  IF segments = <<>>
        THEN [k \in 1..Len(plain) |-> Triple(plain[k], 0, 0)]
      ELSE IF fin.cur # <<>>
        THEN Append(fin.chunks, Triple(Strip(fin.cur), fin.st, fin.en))
      ELSE fin.chunks

\* TextChunker.chunk_transcript.  transcript_data is
\* [transcript |-> text, segments |-> sequence of [text, start, end]].
chunk_transcript(self, transcript_data) ==
  LET segments == transcript_data.segments
      plain == chunk_text(self, transcript_data.transcript)
      F[i \in 0..Len(segments)] ==
        IF i = 0
          THEN [chunks |-> <<>>, cur |-> <<>>, st |-> segments[1].start, en |-> 0]
        ELSE LET s == F[i - 1]
                 segment_text == Strip(segments[i].text)
             IN  IF Len(s.cur) + Len(segment_text) + 1 <= self.chunk_size
                   THEN [s EXCEPT !.cur = s.cur \o segment_text \o <<" ">>,
                                  !.en = segments[i].end]
                 ELSE [chunks |-> Append(s.chunks, Triple(Strip(s.cur), s.st, s.en)),
                       cur |-> segment_text \o <<" ">>,
                       st |-> segments[i].start,
                       en |-> segments[i].end]
      fin == F[Len(segments)]
  IN  IF segments = <<>>
        THEN [k \in 1..Len(plain) |-> Triple(plain[k], 0, 0)]
      ELSE IF fin.cur # <<>>
        THEN Append(fin.chunks, Triple(Strip(fin.cur), fin.st, fin.en))
      ELSE fin.chunks

\* The segments each chunk of chunk_transcript absorbs, as positions in the
\* segment list: a segment joins the current chunk when it fits, else the
\* current chunk is finalized and the segment starts the next one
absorbed(self, segments) ==
  LET F[i \in 0..Len(segments)] ==
        IF i = 0 THEN [groups |-> <<>>, cur |-> {}, len |-> 0]
        ELSE LET s == F[i - 1]
                 n == Len(Strip(segments[i].text))
             IN  IF s.len + n + 1 <= self.chunk_size
                   THEN [s EXCEPT !.cur = s.cur \cup {i}, !.len = s.len + n + 1]
                 ELSE [groups |-> Append(s.groups, s.cur), cur |-> {i}, len |-> n + 1]
      fin == F[Len(segments)]
  IN  IF fin.len # 0 THEN Append(fin.groups, fin.cur) ELSE fin.groups

\* ------------------------------------------------------------------------
\* Vectors and the VectorStore (vector_store.py)
\* ------------------------------------------------------------------------

\* The embedding of `text`, produced during the run of Document `doc`
\* (doc is provenance only: which run put the vector into an index).
Vec(text, doc) == [zero |-> FALSE, text |-> text, doc |-> doc]

\* A row whose entries are all 0.0
ZeroVec == [zero |-> TRUE, text |-> <<>>, doc |-> 0]

\* A numpy array of shape (len(rows), d)
Batch(d, rows) == [ndim |-> 2, d |-> d, rows |-> rows]

\* np.array([]): one-dimensional and empty
EmptyArray == [ndim |-> 1, d |-> 0, rows |-> <<>>]

\* ndarray.any(): some entry is non-zero
np_any(vectors) == \E k \in 1..Len(vectors.rows) : ~vectors.rows[k].zero

\* EmbeddingService.embed_texts: one normalized vector per text
embed_texts(dim, texts, doc) ==
  IF texts = <<>> THEN EmptyArray
  ELSE Batch(dim, [k \in 1..Len(texts) |-> Vec(texts[k], doc)])

\* faiss.IndexFlatIP(d)
IndexFlatIP(d) == [d |-> d, vecs |-> <<>>]

\* The positions of an index, as vector IDs
IdsOf(index) == 0..(Len(index.vecs) - 1)

\* The index file main_index.faiss when it does not exist
NoFile == [exists |-> FALSE, d |-> 0, vecs |-> <<>>]

\* A loader that never reads the file
load_or_create_index_new(file, embedding_dim) == IndexFlatIP(embedding_dim)

\* VectorStore._load_or_create_index: the dimension check raises inside the
\* try block, the except clause swallows it and a new index is created
load_or_create_index(file, embedding_dim) ==
  IF file.exists /\ file.d = embedding_dim
    THEN [d |-> file.d, vecs |-> file.vecs]
    ELSE IndexFlatIP(embedding_dim)

\* _vector_store is None
NoStore == [loaded |-> FALSE, embedding_dim |-> 0, index |-> IndexFlatIP(0)]

\* VectorStore.__init__
VectorStore(file, embedding_dim) ==
  [loaded |-> TRUE, embedding_dim |-> embedding_dim,
   index |-> load_or_create_index(file, embedding_dim)]

\* get_vector_store: construct on first use, then the same object
get_vector_store(current, file, embedding_dim) ==
  IF current.loaded THEN current ELSE VectorStore(file, embedding_dim)

\* range(start_index, start_index + count)
Range(start_index, count) == [k \in 1..count |-> start_index + k - 1]

\* IDs counted from 1 instead of from the size before the insertion
add_vectors_from_one(self, vectors) ==
  IF ~np_any(vectors)
    THEN [exc |-> FALSE, ids |-> <<>>, index |-> self.index]
  ELSE IF vectors.ndim # 2 \/ vectors.d # self.embedding_dim
    THEN [exc |-> TRUE, ids |-> <<>>, index |-> self.index]
  ELSE [exc |-> FALSE,
        ids |-> Range(Len(self.index.vecs) + 1, Len(vectors.rows)),
        index |-> [self.index EXCEPT !.vecs = @ \o vectors.rows]]

\* VectorStore.add_vectors: [exc, ids, index] = whether it raised, the IDs it
\* returned and the index afterwards
add_vectors(self, vectors) ==
  IF ~np_any(vectors)
    THEN [exc |-> FALSE, ids |-> <<>>, index |-> self.index]
  ELSE IF vectors.ndim # 2 \/ vectors.d # self.embedding_dim
    THEN [exc |-> TRUE, ids |-> <<>>, index |-> self.index]
  ELSE [exc |-> FALSE,
        ids |-> Range(Len(self.index.vecs), Len(vectors.rows)),
        index |-> [self.index EXCEPT !.vecs = @ \o vectors.rows]]

\* VectorStore.save_index: faiss.write_index(self.index, path)
save_index(self) == [exists |-> TRUE, d |-> self.index.d, vecs |-> self.index.vecs]

\* ------------------------------------------------------------------------
\* Inputs: what the external collaborators return
\* ------------------------------------------------------------------------

\* A long utterance: two of them do not fit one chunk of 500 characters
LongLen == 250

Hello == <<"H", "e", "l", "l", "o", " ", "w", "o", "r", "l", "d", ".">>

Test == <<"T", "h", "i", "s", " ", "i", "s", " ", "a", " ", "t", "e", "s", "t", ".">>

Hi == <<"H", "i", ".">>

Long == [k \in 1..LongLen |-> "a"]

\* One entry of a provider's 'segments' list
Segment(text, start, end) == [text |-> text, start |-> start, end |-> end]

\* Transcription responses (SarvamClient.transcribe_audio_file): the text, and
\* the 'segments' list when the response has that key
RespEmpty == [transcript |-> <<>>, has_segments |-> FALSE, segments |-> <<>>]

RespHello == [transcript |-> Hello, has_segments |-> TRUE,
              segments |-> <<Segment(Hello, 0, 15)>>]

RespTest == [transcript |-> Test, has_segments |-> TRUE,
             segments |-> <<Segment(Test, 0, 15)>>]

RespHi == [transcript |-> Hi, has_segments |-> FALSE, segments |-> <<>>]

RespLong == [transcript |-> Long, has_segments |-> FALSE, segments |-> <<>>]

\* A response with two timed parts, each as long as half a chunk
RespParts == [transcript |-> Long \o <<" ">> \o Long, has_segments |-> TRUE,
              segments |-> <<Segment(Long, 0, 7), Segment(Long, 7, 15)>>]

\* The audio tracks that are ingested, each as the responses its segments get
AudioFiles ==
  { <<>>, <<RespEmpty>>, <<RespHello, RespTest>>, <<RespEmpty, RespHi>>,
    <<RespLong, RespLong>> }

\* VIDEO_FRAME_INTERVAL_SEC
VIDEO_FRAME_INTERVAL_SEC == 7

\* The name extract_key_frames gives frame number k (0-based):
\* frame_{k:04d}_{int(seconds)}s.jpg, kept as its two numbers
FrameName(k) == <<"frame", k, k * VIDEO_FRAME_INTERVAL_SEC>>

\* float(frame_filename.split('_')[-1].replace('s.jpg', ''))
FrameTime(name) == name[Len(name)]

Digit(k) == IF k = 0 THEN "0" ELSE IF k = 1 THEN "1" ELSE IF k = 2 THEN "2" ELSE "3"

\* The caption the vision model gives frame k
Caption(k) == <<"c", "a", "p", Digit(k)>>

\* Dimensions of the embedding models a process may be configured with
EmbeddingDims == {384, 768}

Workers == {"w1", "w2"}

\* The API process (uvicorn): it serves /query and /task, and has its own
\* _vector_store
Api == "api"

Processes == Workers \cup {Api}

\* ------------------------------------------------------------------------
\* Bounds
\* ------------------------------------------------------------------------

\* Ingestion tasks submitted
MaxTasks == 2

\* Frames extracted from one video
MaxFrames == 2

\* Process restarts
MaxRestarts == 1

\* Rows of one batch given to add_vectors directly
MaxBatch == 2

\* Vectors in the index under direct calls
MaxIndex == 3

\* Paragraphs of a text, segments of a transcript, given to the chunker directly
MaxParagraphs == 3

\* ------------------------------------------------------------------------
\* State
\* ------------------------------------------------------------------------

VARIABLES
  workers,      \* the ingestion worker processes that are deployed
  documents,    \* committed rows of table documents; a row's id is its position
  text_chunks,  \* committed rows of table text_chunks
  disk,         \* the persisted index file main_index.faiss
  store,        \* per process: _vector_store, the in-memory VectorStore
  model_dim,    \* per process: the dimension of the configured embedding model
  pc,           \* per process: where its task is
  run,          \* per process: the local variables of process_audio_source
  tasks,        \* the task state channel: the last record written per task id
  nextTask,     \* the next task id to be delivered
  restarts,     \* process restarts so far
  hist,         \* history, per Document id: what its run planned and did
  ret,          \* the result of the last direct call of add_vectors
  response,     \* the API process: the response of the request being served
  chunked,      \* the result of the last direct call of the chunker
  uploads       \* the audio tracks clients upload: per file, its segments'
                \* transcription responses

vars == <<workers, documents, text_chunks, disk, store, model_dim, pc, run,
          tasks, nextTask, restarts, hist, ret, response, chunked, uploads>>

\* The locals of process_audio_source before the run starts
NoRun ==
  [task |-> 0, source_id |-> 0, doc_type |-> "", doc |-> 0,
   segment_paths |-> <<>>, i |-> 0,
   full_transcript_text |-> <<>>, combined_segments |-> <<>>,
   chunks_with_times |-> <<>>, pending |-> <<>>,
   vector_ids |-> <<>>, frame_vector_ids |-> <<>>, exc |-> "none"]

\* No record in the task state channel
\* (status, progress_percent or -1 for none, whether the record has a
\* non-empty 'details' string, whether it has an 'errors' string, whether it
\* has 'artifacts', the dict the orchestrator returned)
NoTask == [status |-> "pending", progress |-> -1, details |-> FALSE,
           errors |-> FALSE, artifacts |-> FALSE]

\* No direct call of add_vectors yet
\* (the process lifetime and the store's dimension at the call, index.ntotal
\* before and after it, its argument, whether it raised, the IDs it returned,
\* and the IDs earlier calls returned)
NoRet == [called |-> FALSE, lifetime |-> 0, embedding_dim |-> 0,
          size_before |-> 0, vectors |-> EmptyArray, exc |-> FALSE,
          ids |-> <<>>, size_after |-> 0, given |-> {}]

\* No request is being served
NoResp == [kind |-> "none"]

\* No direct call of the chunker yet
NoChunked == [fn |-> "none"]

\* update_task_state(task, TaskStatus.PROCESSING, details, progress)
update_task_state(t, progress) ==
  [tasks EXCEPT ![t] = [status |-> "processing", progress |-> progress,
                        details |-> TRUE, errors |-> FALSE, artifacts |-> FALSE]]

\* TextChunk(document_id, vector_id, text_content, start_time, end_time)
TextChunk(document_id, vector_id, text, start, end) ==
  [document_id |-> document_id, vector_id |-> vector_id, text_content |-> text,
   start_time |-> start, end_time |-> end]

\* The history entry of a Document whose run starts
\* (its task, how it ended, the texts of the rows it staged in order, the vector
\* IDs add_vectors gave it, whether its save_index has returned)
NewHist(task) == [task |-> task, ended |-> "no", planned |-> <<>>, added |-> {},
                  saved |-> FALSE]

\* An exception that leaves the orchestrator without passing its handler
RaiseUnhandled(w, stage) ==
  /\ pc' = [pc EXCEPT ![w] = "raised"]
  /\ run' = [run EXCEPT ![w].exc = stage]
  /\ UNCHANGED hist

\* An exception raised at `stage` inside the try block of process w
Raise(w, stage) ==
  /\ pc' = [pc EXCEPT ![w] = "except"]
  /\ run' = [run EXCEPT ![w].exc = stage]
  /\ UNCHANGED hist

Init ==
  /\ workers = {"w1"}
  /\ documents = <<>>
  /\ text_chunks = {}
  /\ disk = NoFile
  /\ store = [p \in Processes |-> NoStore]
  /\ model_dim = [p \in Processes |-> 384]
  /\ pc = [w \in Workers |-> "idle"]
  /\ run = [w \in Workers |-> NoRun]
  /\ tasks = [t \in 1..MaxTasks |-> NoTask]
  /\ nextTask = 1
  /\ restarts = 0
  /\ hist = <<>>
  /\ ret = NoRet
  /\ response = NoResp
  /\ chunked = NoChunked
  /\ uploads = AudioFiles

\* ------------------------------------------------------------------------
\* ingest_audio / ingest_video and process_audio_source, step by step
\* ------------------------------------------------------------------------

\* A worker takes a task: ingest_audio / ingest_video / ingest_image up to the
\* orchestrator call.  The upload carries a new source_id (the task's number)
\* or repeats the source_id of an earlier upload.
Begin(w) ==
  /\ pc[w] = "idle"
  /\ nextTask <= MaxTasks
  /\ \E src \in 1..nextTask, dt \in {"audio", "video", "image"} :
       /\ run' = [run EXCEPT ![w] =
                    [NoRun EXCEPT !.task = nextTask, !.source_id = src, !.doc_type = dt]]
       /\ pc' = [pc EXCEPT ![w] = IF dt = "image" THEN "image" ELSE "services"]
  /\ tasks' = update_task_state(nextTask, 5)
  /\ nextTask' = nextTask + 1
  /\ UNCHANGED <<response, chunked, uploads, workers, documents, text_chunks, disk, store, model_dim,
                 restarts, hist, ret>>

\* "Get all singleton services": the first call in a process loads the index
GetServices(w) ==
  /\ pc[w] = "services"
  /\ store' = [store EXCEPT ![w] = get_vector_store(store[w], disk, model_dim[w])]
  /\ pc' = [pc EXCEPT ![w] = "create"]
  /\ UNCHANGED <<response, chunked, uploads, workers, documents, text_chunks, disk, model_dim, run, tasks,
                 nextTask, restarts, hist, ret>>

\* A Document row that is added to the session and not committed
CreateDocumentLate(w) ==
  /\ pc[w] = "create"
  /\ pc' = [pc EXCEPT ![w] = "prepare"]
  /\ UNCHANGED <<response, chunked, uploads, workers, documents, text_chunks, disk, store, model_dim, run,
                 tasks, nextTask, restarts, hist, ret>>

\* A Document row added whether or not the source_id is new
CreateDocumentAgain(w) ==
  /\ pc[w] = "create"
  /\ documents' = Append(documents,
       [source_id |-> run[w].source_id, doc_type |-> run[w].doc_type,
        status |-> "processing"])
  /\ hist' = Append(hist, NewHist(run[w].task))
  /\ run' = [run EXCEPT ![w].doc = Len(documents) + 1]
  /\ pc' = [pc EXCEPT ![w] = "prepare"]
  /\ UNCHANGED <<response, chunked, uploads, workers, text_chunks, disk, store, model_dim, tasks, nextTask,
                 restarts, ret>>

\* 1. Create the Document row and commit it.  source_id is unique: a second
\* row with the same source_id makes the commit raise, outside the try block.
CreateDocument(w) ==
  /\ pc[w] = "create"
  /\ IF \E d \in 1..Len(documents) : documents[d].source_id = run[w].source_id
       THEN /\ pc' = [pc EXCEPT ![w] = "raised"]
            /\ UNCHANGED <<documents, hist, run>>
       ELSE /\ documents' = Append(documents,
                 [source_id |-> run[w].source_id, doc_type |-> run[w].doc_type,
                  status |-> "processing"])
            /\ hist' = Append(hist, NewHist(run[w].task))
            /\ run' = [run EXCEPT ![w].doc = Len(documents) + 1]
            /\ pc' = [pc EXCEPT ![w] = "prepare"]
  /\ UNCHANGED <<response, chunked, uploads, workers, text_chunks, disk, store, model_dim, tasks, nextTask,
                 restarts, ret>>

\* 2. prepare_audio_for_transcription returns or raises
PrepareAudio(w) ==
  /\ pc[w] = "prepare"
  /\ tasks' = update_task_state(run[w].task, 10)
  /\ \E ok \in BOOLEAN :
       IF ok THEN /\ pc' = [pc EXCEPT ![w] = "split"]
                  /\ UNCHANGED <<run, hist>>
             ELSE Raise(w, "prepare")
  /\ UNCHANGED <<response, chunked, uploads, workers, documents, text_chunks, disk, store, model_dim,
                 nextTask, restarts, ret>>

\* 3. split_audio_file returns the segment files or raises; no segment is fatal
SplitAudio(w) ==
  /\ pc[w] = "split"
  /\ \E ok \in BOOLEAN, audio \in uploads :
       IF ok /\ audio # <<>>
         THEN /\ run' = [run EXCEPT ![w].segment_paths = audio, ![w].i = 0]
              /\ tasks' = update_task_state(run[w].task, 40)
              /\ pc' = [pc EXCEPT ![w] = "transcribe"]
              /\ UNCHANGED hist
         ELSE /\ tasks' = update_task_state(run[w].task, 20)
              /\ Raise(w, "split")
  /\ UNCHANGED <<response, chunked, uploads, workers, documents, text_chunks, disk, store, model_dim,
                 nextTask, restarts, ret>>

\* segment_transcript_data.get('segments', [{'text': ..., 'start': 0.0, 'end': 0.0}])
SegmentsOf(resp) ==
  IF resp.has_segments THEN resp.segments
  ELSE <<Segment(resp.transcript, 0, 0)>>

\* A transcription call that neither returns nor raises
TranscribeSegmentHangs(w) ==
  /\ pc[w] = "transcribe"
  /\ UNCHANGED vars

\* A loop body that combines the result of every segment, also an empty one
TranscribeSegmentUnguarded(w) ==
  /\ pc[w] = "transcribe"
  /\ LET r == run[w]
         n == Len(r.segment_paths)
         resp == r.segment_paths[r.i + 1]
     IN  /\ tasks' = update_task_state(r.task, 40 + ((r.i * 10) \div n))
         /\ \E ok \in BOOLEAN :
              IF ok
                THEN /\ run' = [run EXCEPT ![w] =
                          [r EXCEPT
                             !.i = r.i + 1,
                             !.full_transcript_text = @ \o resp.transcript \o <<" ">>,
                             !.combined_segments = @ \o SegmentsOf(resp)]]
                     /\ pc' = [pc EXCEPT ![w] =
                                 IF r.i + 1 = n THEN "chunk" ELSE "transcribe"]
                     /\ UNCHANGED hist
                ELSE Raise(w, "transcribe")
  /\ UNCHANGED <<response, chunked, uploads, workers, documents, text_chunks, disk, store, model_dim,
                 nextTask, restarts, ret>>

\* 4. One iteration of the transcription loop, for segment number i
TranscribeSegment(w) ==
  /\ pc[w] = "transcribe"
  /\ LET r == run[w]
         n == Len(r.segment_paths)
         resp == r.segment_paths[r.i + 1]
     IN  /\ tasks' = update_task_state(r.task, 40 + ((r.i * 10) \div n))
         /\ \E ok \in BOOLEAN :
              IF ok
                THEN /\ run' = [run EXCEPT ![w] =
                          [r EXCEPT
                             !.i = r.i + 1,
                             !.full_transcript_text =
                                IF resp.transcript # <<>>
                                  THEN @ \o resp.transcript \o <<" ">> ELSE @,
                             !.combined_segments =
                                IF resp.transcript # <<>>
                                  THEN @ \o SegmentsOf(resp) ELSE @]]
                     /\ pc' = [pc EXCEPT ![w] =
                                 IF r.i + 1 = n THEN "chunk" ELSE "transcribe"]
                     /\ UNCHANGED hist
                ELSE Raise(w, "transcribe")
  /\ UNCHANGED <<response, chunked, uploads, workers, documents, text_chunks, disk, store, model_dim,
                 nextTask, restarts, ret>>

\* 5. Save the combined transcript and chunk it; no chunk is fatal
ChunkTranscript(w) ==
  /\ pc[w] = "chunk"
  /\ LET r == run[w]
         transcript_data == [transcript |-> Strip(r.full_transcript_text),
                             segments |-> r.combined_segments]
         chunks == chunk_transcript(get_text_chunker, transcript_data)
     IN  \E ok \in BOOLEAN :
           IF ~ok
             THEN /\ Raise(w, "save_transcript")
                  /\ UNCHANGED tasks
           ELSE IF chunks = <<>>
             THEN /\ tasks' = update_task_state(r.task, 55)
                  /\ Raise(w, "chunk")
           ELSE /\ tasks' = update_task_state(r.task, 55)
                /\ run' = [run EXCEPT ![w] =
                     [r EXCEPT !.chunks_with_times = chunks,
                               !.full_transcript_text = <<>>,
                               !.combined_segments = <<>>,
                               !.segment_paths = <<>>]]
                /\ UNCHANGED hist
                /\ pc' = [pc EXCEPT ![w] = "embed"]
  /\ UNCHANGED <<response, chunked, uploads, workers, documents, text_chunks, disk, store, model_dim,
                 nextTask, restarts, ret>>

\* Rows for the first chunk only
ChunkRecordsFirstOnly(doc, chunks, ids) ==
  [k \in 1..1 |->
     TextChunk(doc, ids[k], chunks[k].text, chunks[k].start, chunks[k].end)]

\* The rows built from chunks and the IDs add_vectors returned
ChunkRecords(doc, chunks, ids) ==
  [k \in 1..Len(chunks) |->
     TextChunk(doc, ids[k], chunks[k].text, chunks[k].start, chunks[k].end)]

\* 5./6. Embed the chunk texts, add the vectors, stage the rows (db.add_all)
EmbedAndAdd(w) ==
  /\ pc[w] = "embed"
  /\ LET r == run[w]
         texts == [k \in 1..Len(r.chunks_with_times) |-> r.chunks_with_times[k].text]
         vectors == embed_texts(model_dim[w], texts, r.doc)
         res == add_vectors(store[w], vectors)
     IN  \E ok \in BOOLEAN :
           IF ~ok
             THEN /\ Raise(w, "embed")
                  /\ UNCHANGED store
           ELSE IF res.exc
             THEN /\ Raise(w, "add")
                  /\ UNCHANGED store
           ELSE IF Len(res.ids) < Len(r.chunks_with_times)
             THEN \* vector_ids[i] raises IndexError
                  /\ store' = [store EXCEPT ![w].index = res.index]
                  /\ pc' = [pc EXCEPT ![w] = "except"]
                  /\ Raise(w, "link")
           ELSE /\ store' = [store EXCEPT ![w].index = res.index]
                /\ run' = [run EXCEPT ![w] =
                     [r EXCEPT !.vector_ids = res.ids,
                               !.pending = ChunkRecords(r.doc, r.chunks_with_times, res.ids)]]
                /\ hist' = [hist EXCEPT
                     ![r.doc].added = @ \cup {res.ids[k] : k \in 1..Len(res.ids)},
                     ![r.doc].planned = texts]
                /\ pc' = [pc EXCEPT ![w] =
                            IF r.doc_type = "video" THEN "extract" ELSE "finalize"]
  /\ UNCHANGED <<response, chunked, uploads, workers, documents, text_chunks, disk, model_dim, tasks,
                 nextTask, restarts, ret>>

\* 6a. extract_key_frames returns or raises
ExtractFrames(w) ==
  /\ pc[w] = "extract"
  /\ tasks' = update_task_state(run[w].task, 70)
  /\ \E ok \in BOOLEAN :
       IF ok THEN /\ pc' = [pc EXCEPT ![w] = "analyze"]
                  /\ UNCHANGED <<run, hist>>
             ELSE Raise(w, "extract")
  /\ UNCHANGED <<response, chunked, uploads, workers, documents, text_chunks, disk, store, model_dim,
                 nextTask, restarts, ret>>

\* The rows built from the frame captions
FrameRecords(doc, n, ids) ==
  [k \in 1..n |->
     TextChunk(doc, ids[k], Caption(k - 1),
               FrameTime(FrameName(k - 1)), FrameTime(FrameName(k - 1)))]

\* 6b./6c. Caption the n frames, embed the captions, add and stage them
AnalyzeFrames(w) ==
  /\ pc[w] = "analyze"
  /\ tasks' = update_task_state(run[w].task, 80)
  /\ LET r == run[w]
     IN  \E ok \in BOOLEAN, n \in 0..MaxFrames :
           LET frame_texts == [k \in 1..n |-> Caption(k - 1)]
               res == add_vectors(store[w], embed_texts(model_dim[w], frame_texts, r.doc))
           IN  IF ~ok
                 THEN /\ Raise(w, "frames")
                      /\ UNCHANGED store
               ELSE IF n = 0
                 THEN /\ pc' = [pc EXCEPT ![w] = "finalize"]
                      /\ UNCHANGED <<store, run, hist>>
               ELSE IF res.exc
                 THEN /\ Raise(w, "add")
                      /\ UNCHANGED store
               ELSE IF Len(res.ids) < n
                 THEN /\ store' = [store EXCEPT ![w].index = res.index]
                      /\ Raise(w, "link")
               ELSE /\ store' = [store EXCEPT ![w].index = res.index]
                    /\ run' = [run EXCEPT ![w] =
                         [r EXCEPT !.frame_vector_ids = res.ids,
                                   !.pending = @ \o FrameRecords(r.doc, n, res.ids)]]
                    /\ hist' = [hist EXCEPT
                         ![r.doc].added = @ \cup {res.ids[k] : k \in 1..n},
                         ![r.doc].planned = @ \o frame_texts]
                    /\ pc' = [pc EXCEPT ![w] = "finalize"]
  /\ UNCHANGED <<response, chunked, uploads, workers, documents, text_chunks, disk, model_dim, nextTask,
                 restarts, ret>>

\* vector_id is unique: the INSERT of a staged row fails when a committed row
\* already has its vector_id
UniqueViolation(rows) ==
  \E k \in 1..Len(rows) : \E c \in text_chunks : c.vector_id = rows[k].vector_id

\* A commit of the staged rows that leaves the status as it is
FinalizeCommitRowsOnly(w) ==
  /\ pc[w] = "finalize"
  /\ tasks' = update_task_state(run[w].task, 95)
  /\ LET r == run[w]
     IN  \E ok \in BOOLEAN :
           IF ok /\ ~UniqueViolation(r.pending)
             THEN /\ text_chunks' = text_chunks \cup
                                      {r.pending[k] : k \in 1..Len(r.pending)}
                  /\ run' = [run EXCEPT ![w].pending = <<>>]
                  /\ pc' = [pc EXCEPT ![w] = "save"]
                  /\ UNCHANGED <<hist, documents>>
             ELSE /\ Raise(w, "commit")
                  /\ UNCHANGED <<documents, text_chunks>>
  /\ UNCHANGED <<response, chunked, uploads, workers, disk, store, model_dim, nextTask, restarts, ret>>

\* 7. doc.status = "completed"; db.commit(): the status and every staged row
\* in one transaction, or an exception and nothing
FinalizeCommit(w) ==
  /\ pc[w] = "finalize"
  /\ tasks' = update_task_state(run[w].task, 95)
  /\ LET r == run[w]
     IN  \E ok \in BOOLEAN :
           IF ok /\ ~UniqueViolation(r.pending)
             THEN /\ documents' = [documents EXCEPT ![r.doc].status = "completed"]
                  /\ text_chunks' = text_chunks \cup
                                      {r.pending[k] : k \in 1..Len(r.pending)}
                  /\ run' = [run EXCEPT ![w].pending = <<>>]
                  /\ pc' = [pc EXCEPT ![w] = "save"]
                  /\ UNCHANGED hist
             ELSE /\ Raise(w, "commit")
                  /\ UNCHANGED <<documents, text_chunks>>
  /\ UNCHANGED <<response, chunked, uploads, workers, disk, store, model_dim, nextTask, restarts, ret>>

\* 7. vector_store.save_index() writes the file or raises; then return artifacts
SaveIndex(w) ==
  /\ pc[w] = "save"
  /\ \E ok \in BOOLEAN :
       IF ok THEN /\ disk' = save_index(store[w])
                  /\ pc' = [pc EXCEPT ![w] = "returned"]
                  /\ hist' = [hist EXCEPT ![run[w].doc].saved = TRUE]
                  /\ UNCHANGED run
             ELSE /\ Raise(w, "save")
                  /\ UNCHANGED disk
  /\ UNCHANGED <<response, chunked, uploads, workers, documents, text_chunks, store, model_dim, tasks,
                 nextTask, restarts, ret>>

\* A handler that re-raises without touching the session or the Document
HandleFailureBare(w) ==
  /\ pc[w] = "except"
  /\ pc' = [pc EXCEPT ![w] = "raised"]
  /\ UNCHANGED <<response, chunked, uploads, workers, documents, text_chunks, disk, store, model_dim, run,
                 tasks, nextTask, restarts, hist, ret>>

\* except Exception: db.rollback(); doc.status = "failed"; db.add(doc);
\* db.commit(); raise
HandleFailure(w) ==
  /\ pc[w] = "except"
  /\ run' = [run EXCEPT ![w].pending = <<>>]
  /\ documents' = [documents EXCEPT ![run[w].doc].status = "failed"]
  /\ pc' = [pc EXCEPT ![w] = "raised"]
  /\ UNCHANGED <<response, chunked, uploads, workers, text_chunks, disk, store, model_dim, tasks, nextTask,
                 restarts, hist, ret>>

\* process_image_source (placeholder): it writes the SUCCESS record and
\* returns; no Document, no caption, no vector
ProcessImage(w) ==
  /\ pc[w] = "image"
  /\ tasks' = [tasks EXCEPT ![run[w].task] =
                 [status |-> "success", progress |-> 100, details |-> TRUE,
                  errors |-> FALSE, artifacts |-> FALSE]]
  /\ pc' = [pc EXCEPT ![w] = "returned"]
  /\ UNCHANGED <<response, chunked, uploads, workers, documents, text_chunks, disk, store, model_dim,
                 run, nextTask, restarts, hist, ret>>

\* The history entry of the run of process w, closed with `how`
EndRun(w, how) ==
  IF run[w].doc = 0 THEN hist ELSE [hist EXCEPT ![run[w].doc].ended = how]

\* A task that writes the SUCCESS record once the Document is committed
\* 'completed', without waiting for save_index
TaskSuccessEarly(w) ==
  /\ pc[w] \in {"save", "returned"}
  /\ tasks' = [tasks EXCEPT ![run[w].task] =
                 [status |-> "success", progress |-> 100, details |-> TRUE,
                  errors |-> FALSE, artifacts |-> TRUE]]
  /\ hist' = EndRun(w, "returned")
  /\ run' = [run EXCEPT ![w] = NoRun]
  /\ pc' = [pc EXCEPT ![w] = "idle"]
  /\ UNCHANGED <<response, chunked, uploads, workers, documents, text_chunks, disk, store, model_dim,
                 nextTask, restarts, ret>>

\* ingest_*: the orchestrator returned; write the SUCCESS record
TaskSuccess(w) ==
  /\ pc[w] = "returned"
  /\ tasks' = [tasks EXCEPT ![run[w].task] =
                 [status |-> "success", progress |-> 100, details |-> TRUE,
                  errors |-> FALSE, artifacts |-> TRUE]]
  /\ hist' = EndRun(w, "returned")
  /\ run' = [run EXCEPT ![w] = NoRun]
  /\ pc' = [pc EXCEPT ![w] = "idle"]
  /\ UNCHANGED <<response, chunked, uploads, workers, documents, text_chunks, disk, store, model_dim,
                 nextTask, restarts, ret>>

\* A handler that records the failure without the exception's text
TaskFailureSilent(w) ==
  /\ pc[w] = "raised"
  /\ tasks' = [tasks EXCEPT ![run[w].task] =
                 [status |-> "failure", progress |-> -1, details |-> TRUE,
                  errors |-> FALSE, artifacts |-> FALSE]]
  /\ hist' = EndRun(w, "raised")
  /\ run' = [run EXCEPT ![w] = NoRun]
  /\ pc' = [pc EXCEPT ![w] = "idle"]
  /\ UNCHANGED <<response, chunked, uploads, workers, documents, text_chunks, disk, store, model_dim,
                 nextTask, restarts, ret>>

\* ingest_*: except Exception: write the FAILURE record, with
\* details = "Failed to process ...: " + str(e) and errors = str(e), and
\* re-raise (ingest_video writes progress_percent 0.0, the others write none)
TaskFailure(w) ==
  /\ pc[w] = "raised"
  /\ tasks' = [tasks EXCEPT ![run[w].task] =
                 [status |-> "failure",
                  progress |-> IF run[w].doc_type = "video" THEN 0 ELSE -1,
                  details |-> TRUE, errors |-> TRUE, artifacts |-> FALSE]]
  /\ hist' = EndRun(w, "raised")
  /\ run' = [run EXCEPT ![w] = NoRun]
  /\ pc' = [pc EXCEPT ![w] = "idle"]
  /\ UNCHANGED <<response, chunked, uploads, workers, documents, text_chunks, disk, store, model_dim,
                 nextTask, restarts, ret>>

\* The process stops (at any point) and is started again, possibly configured
\* with another embedding model: its memory is gone, the files and rows stay
Restart(w) ==
  /\ restarts < MaxRestarts
  /\ restarts' = restarts + 1
  /\ \E dim \in EmbeddingDims : model_dim' = [model_dim EXCEPT ![w] = dim]
  /\ store' = [store EXCEPT ![w] = NoStore]
  /\ hist' = IF pc[w] = "idle" THEN hist ELSE EndRun(w, "crashed")
  /\ run' = [run EXCEPT ![w] = NoRun]
  /\ pc' = [pc EXCEPT ![w] = "idle"]
  /\ UNCHANGED <<response, chunked, uploads, workers, documents, text_chunks, disk, tasks, nextTask, ret>>

Next ==
  \/ \E w \in workers : Begin(w)
  \/ \E w \in workers : GetServices(w)
  \/ \E w \in workers : CreateDocument(w)
  \/ \E w \in workers : PrepareAudio(w)
  \/ \E w \in workers : SplitAudio(w)
  \/ \E w \in workers : TranscribeSegment(w)
  \/ \E w \in workers : ChunkTranscript(w)
  \/ \E w \in workers : EmbedAndAdd(w)
  \/ \E w \in workers : ExtractFrames(w)
  \/ \E w \in workers : AnalyzeFrames(w)
  \/ \E w \in workers : FinalizeCommit(w)
  \/ \E w \in workers : SaveIndex(w)
  \/ \E w \in workers : ProcessImage(w)
  \/ \E w \in workers : HandleFailure(w)
  \/ \E w \in workers : TaskSuccess(w)
  \/ \E w \in workers : TaskFailure(w)
  \/ \E w \in workers : Restart(w)

\* One ingestion worker, which may be restarted
Spec == Init /\ [][Next]_vars

\* Two ingestion workers, each a process with its own VectorStore, on the same
\* database and the same index file
InitTwo ==
  /\ workers = Workers
  /\ documents = <<>>
  /\ text_chunks = {}
  /\ disk = NoFile
  /\ store = [p \in Processes |-> NoStore]
  /\ model_dim = [p \in Processes |-> 384]
  /\ pc = [w \in Workers |-> "idle"]
  /\ run = [w \in Workers |-> NoRun]
  /\ tasks = [t \in 1..MaxTasks |-> NoTask]
  /\ nextTask = 1
  /\ restarts = 0
  /\ hist = <<>>
  /\ ret = NoRet
  /\ response = NoResp
  /\ chunked = NoChunked
  /\ uploads = AudioFiles

NextTwo ==
  \/ \E w \in workers : Begin(w)
  \/ \E w \in workers : GetServices(w)
  \/ \E w \in workers : CreateDocument(w)
  \/ \E w \in workers : PrepareAudio(w)
  \/ \E w \in workers : SplitAudio(w)
  \/ \E w \in workers : TranscribeSegment(w)
  \/ \E w \in workers : ChunkTranscript(w)
  \/ \E w \in workers : EmbedAndAdd(w)
  \/ \E w \in workers : ExtractFrames(w)
  \/ \E w \in workers : AnalyzeFrames(w)
  \/ \E w \in workers : FinalizeCommit(w)
  \/ \E w \in workers : SaveIndex(w)
  \/ \E w \in workers : ProcessImage(w)
  \/ \E w \in workers : HandleFailure(w)
  \/ \E w \in workers : TaskSuccess(w)
  \/ \E w \in workers : TaskFailure(w)

SpecTwo == InitTwo /\ [][NextTwo]_vars

\* A step of the task that process w is running: the interpreter goes on to
\* the next statement
RunStep(w) ==
  \/ GetServices(w)
  \/ CreateDocument(w)
  \/ PrepareAudio(w)
  \/ SplitAudio(w)
  \/ TranscribeSegment(w)
  \/ ChunkTranscript(w)
  \/ EmbedAndAdd(w)
  \/ ExtractFrames(w)
  \/ AnalyzeFrames(w)
  \/ FinalizeCommit(w)
  \/ SaveIndex(w)
  \/ ProcessImage(w)
  \/ HandleFailure(w)
  \/ TaskSuccess(w)
  \/ TaskFailure(w)

\* One ingestion worker that is not killed: every call it makes returns or
\* raises, and a task that has begun keeps running
SpecLive == Init /\ [][NextTwo]_vars /\ \A w \in Workers : WF_vars(RunStep(w))

\* One ingestion worker; the uploads are a recording whose first segment is
\* transcribed in two timed parts, and a two-sentence recording
InitParts ==
  /\ workers = {"w1"}
  /\ documents = <<>>
  /\ text_chunks = {}
  /\ disk = NoFile
  /\ store = [p \in Processes |-> NoStore]
  /\ model_dim = [p \in Processes |-> 384]
  /\ pc = [w \in Workers |-> "idle"]
  /\ run = [w \in Workers |-> NoRun]
  /\ tasks = [t \in 1..MaxTasks |-> NoTask]
  /\ nextTask = 1
  /\ restarts = 0
  /\ hist = <<>>
  /\ ret = NoRet
  /\ response = NoResp
  /\ chunked = NoChunked
  /\ uploads = {<<RespParts, RespLong>>, <<RespHello, RespTest>>}

SpecParts == InitParts /\ [][Next]_vars

\* ------------------------------------------------------------------------
\* The VectorStore on its own: construction, add_vectors, save_index, restart
\* ------------------------------------------------------------------------

\* The elements of a sequence
Elems(seq) == {seq[k] : k \in 1..Len(seq)}

\* Sequences over S of length 0..n
RECURSIVE SeqsUpTo(_, _)
SeqsUpTo(S, n) ==
  IF n = 0 THEN {<<>>}
  ELSE LET shorter == SeqsUpTo(S, n - 1)
       IN  shorter \cup {Append(q, x) : q \in {r \in shorter : Len(r) = n - 1}, x \in S}

\* The arrays add_vectors is called with: shape (N, D) for N in 0..MaxBatch and
\* D a model dimension, rows all zero or not, and the one-dimensional empty array
Batches ==
  {EmptyArray} \cup
  {Batch(d, rows) : d \in EmbeddingDims,
                    rows \in SeqsUpTo({ZeroVec, Vec(Hi, 0), Vec(Hello, 0)}, MaxBatch)}

\* First use in a process: _vector_store = VectorStore(); the constructor
\* returns normally whatever the file holds
Construct(w) ==
  /\ ~store[w].loaded
  /\ store' = [store EXCEPT ![w] = get_vector_store(store[w], disk, model_dim[w])]
  /\ UNCHANGED <<response, chunked, uploads, workers, documents, text_chunks, disk, model_dim, pc, run,
                 tasks, nextTask, restarts, hist, ret>>

\* get_vector_store().add_vectors(vectors)
AddCall(w) ==
  /\ store[w].loaded
  /\ \E vectors \in Batches :
       LET r == add_vectors(store[w], vectors)
       IN  /\ Len(r.index.vecs) <= MaxIndex
           /\ store' = [store EXCEPT ![w].index = r.index]
           /\ ret' = [called |-> TRUE, lifetime |-> restarts,
                      embedding_dim |-> store[w].embedding_dim,
                      size_before |-> Len(store[w].index.vecs),
                      vectors |-> vectors, exc |-> r.exc, ids |-> r.ids,
                      size_after |-> Len(r.index.vecs),
                      given |-> ret.given \cup Elems(ret.ids)]
  /\ UNCHANGED <<response, chunked, uploads, workers, documents, text_chunks, disk, model_dim, pc, run,
                 tasks, nextTask, restarts, hist>>

\* get_vector_store().save_index()
SaveCall(w) ==
  /\ store[w].loaded
  /\ disk' = save_index(store[w])
  /\ UNCHANGED <<response, chunked, uploads, workers, documents, text_chunks, store, model_dim, pc, run,
                 tasks, nextTask, restarts, hist, ret>>

NextAdd ==
  \/ \E w \in workers : Construct(w)
  \/ \E w \in workers : AddCall(w)
  \/ \E w \in workers : SaveCall(w)
  \/ \E w \in workers : Restart(w)

\* One process that uses its VectorStore directly
SpecAdd == Init /\ [][NextAdd]_vars

\* ------------------------------------------------------------------------
\* The API process: POST /query and GET /task/{task_id}
\* ------------------------------------------------------------------------

\* QueryFilter with every field None
NoFilter == [source_id |-> 0, doc_type |-> ""]

\* QueryRequest(query, filters, top_k)
QueryRequest(query, filters, top_k) ==
  [query |-> query, filters |-> filters, top_k |-> top_k]

\* The requests posted to /query
Requests ==
  {QueryRequest(q, f, k) :
     q \in {Hi},
     f \in {NoFilter, [source_id |-> 1, doc_type |-> "video"]},
     k \in {1, 5}}

\* EmbeddingService.embed_text: the only row of embed_texts([text])
embed_text(dim, text) == embed_texts(dim, <<text>>, 0).rows[1]

\* The inner product of two normalized embeddings, in hundredths: 100 for the
\* same text, else the share of positions at which the texts agree
InnerProduct(u, v) ==
  IF u.zero \/ v.zero THEN 0
  ELSE IF u.text = v.text THEN 100
  ELSE LET n == Max({Len(u.text), Len(v.text)})
           same == {k \in 1..Min({Len(u.text), Len(v.text)}) : u.text[k] = v.text[k]}
       IN  (99 * Cardinality(same)) \div n

\* The entry faiss returns where the index has fewer than top_k vectors
Sentinel == [id |-> -1, distance |-> -1000]

\* VectorStore.search: the results index.search can return, top_k entries
\* [id, distance] by decreasing inner product and then sentinels; the order
\* among equal distances is the index's
search(self, query_vector, top_k) ==
  LET vecs == self.index.vecs
      m == Min({top_k, Len(vecs)})
      dist(id) == InnerProduct(query_vector, vecs[id + 1])
      hits == {f \in [1..m -> IdsOf(self.index)] :
                 /\ \A i, j \in 1..m : i < j => f[i] # f[j] /\ dist(f[i]) >= dist(f[j])
                 /\ \A id \in IdsOf(self.index) :
                      (\A i \in 1..m : f[i] # id) => \A i \in 1..m : dist(id) <= dist(f[i])}
  IN  {[k \in 1..top_k |->
          IF k <= m THEN [id |-> f[k], distance |-> dist(f[k])] ELSE Sentinel] :
       f \in hits}

\* The orders in which a query without ORDER BY can return the rows S
RECURSIVE RowOrders(_)
RowOrders(S) ==
  IF S = {} THEN {<<>>}
  ELSE UNION {{<<c>> \o rest : rest \in RowOrders(S \ {c})} : c \in S}

\* get_chunks_by_vector_ids: the rows whose vector_id is in the list
get_chunks_by_vector_ids(rows, vector_ids) ==
  IF vector_ids = <<>> THEN {<<>>}
  ELSE RowOrders({c \in rows : c.vector_id \in Elems(vector_ids)})

\* [int(vid) for vid in vector_ids if vid != -1]
valid_vector_ids(result) ==
  LET RECURSIVE keep(_)
      keep(k) == IF k > Len(result) THEN <<>>
                 ELSE IF result[k].id # -1 THEN <<result[k].id>> \o keep(k + 1)
                 ELSE keep(k + 1)
  IN  keep(1)

\* SourceChunk(chunk_text, start_time, end_time, score, metadata)
SourceChunk(chunk, score) ==
  [chunk_text |-> chunk.text_content, start_time |-> chunk.start_time,
   end_time |-> chunk.end_time, score |-> score,
   document_id |-> chunk.document_id, vector_id |-> chunk.vector_id]

\* The list left as it is
unsorted(source_chunks) == source_chunks

\* list.sort(key=lambda x: x.score, reverse=True): stable, by decreasing score
RECURSIVE sort_by_score(_)
sort_by_score(source_chunks) ==
  IF source_chunks = <<>> THEN <<>>
  ELSE LET n == Len(source_chunks)
           top == Max({source_chunks[k].score : k \in 1..n})
           first == Min({k \in 1..n : source_chunks[k].score = top})
       IN  <<source_chunks[first]>> \o
           sort_by_score([k \in 1..(n - 1) |->
                            source_chunks[IF k < first THEN k ELSE k + 1]])

\* An assembly that gives the k-th row the k-th distance of the search
retrieve_chunks_by_position(request, result, metadata_chunks) ==
  IF valid_vector_ids(result) = <<>> THEN <<>>
  ELSE sort_by_score([k \in 1..Len(metadata_chunks) |->
         SourceChunk(metadata_chunks[k], result[k].distance)])

\* Retriever.retrieve_chunks after the search, given the rows the metadata
\* store returned; the request's filters are not read
retrieve_chunks(request, result, metadata_chunks) ==
  IF valid_vector_ids(result) = <<>> THEN <<>>
  ELSE LET score_map(vid) ==
             IF \E k \in 1..Len(result) : result[k].id = vid
               THEN result[CHOOSE k \in 1..Len(result) : result[k].id = vid].distance
               ELSE 0
       IN  sort_by_score([k \in 1..Len(metadata_chunks) |->
             SourceChunk(metadata_chunks[k], score_map(metadata_chunks[k].vector_id))])

\* An answer that calls the provider for any list of chunks
generate_answer_always(query, chunks, llm_ok) ==
  IF llm_ok
    THEN [answer |-> "generated", sources |-> chunks, llm_called |-> TRUE]
    ELSE [answer |-> "llm_error", sources |-> <<>>, llm_called |-> TRUE]

\* AnswerGenerator.generate_answer: the fallback for no chunk, else the
\* provider's answer or, when the call raises, the error answer
generate_answer(query, chunks, llm_ok) ==
  IF chunks = <<>>
    THEN [answer |-> "fallback", sources |-> <<>>, llm_called |-> FALSE]
  ELSE IF llm_ok
    THEN [answer |-> "generated", sources |-> chunks, llm_called |-> TRUE]
  ELSE [answer |-> "llm_error", sources |-> <<>>, llm_called |-> TRUE]

\* A query that also adds the query vector to the index
QuerySystemAdds ==
  /\ response = NoResp
  /\ \E request \in Requests, llm_ok \in BOOLEAN :
       LET vector_store == get_vector_store(store[Api], disk, model_dim[Api])
           query_vector == embed_text(model_dim[Api], request.query)
           added == add_vectors(vector_store, Batch(model_dim[Api], <<query_vector>>))
       IN  \E result \in search(vector_store, query_vector, request.top_k) :
             \E metadata_chunks \in
                  get_chunks_by_vector_ids(text_chunks, valid_vector_ids(result)) :
               LET relevant_chunks == retrieve_chunks(request, result, metadata_chunks)
                   answered == generate_answer(request.query, relevant_chunks, llm_ok)
               IN  /\ store' = [store EXCEPT ![Api] =
                                  [vector_store EXCEPT !.index = added.index]]
                   /\ response' =
                        [kind |-> "query", code |-> 200, request |-> request,
                         result |-> result,
                         db_queried |-> valid_vector_ids(result) # <<>>,
                         relevant_chunks |-> relevant_chunks,
                         answer |-> answered.answer, sources |-> answered.sources,
                         llm_called |-> answered.llm_called]
  /\ UNCHANGED <<chunked, uploads, workers, documents, text_chunks, disk, model_dim, pc,
                 run, tasks, nextTask, restarts, hist, ret>>

\* POST /query: query_system, with the Retriever constructed on first use
QuerySystem ==
  /\ response = NoResp
  /\ \E request \in Requests, llm_ok \in BOOLEAN :
       LET vector_store == get_vector_store(store[Api], disk, model_dim[Api])
           query_vector == embed_text(model_dim[Api], request.query)
       IN  \E result \in search(vector_store, query_vector, request.top_k) :
             \E metadata_chunks \in
                  get_chunks_by_vector_ids(text_chunks, valid_vector_ids(result)) :
               LET relevant_chunks == retrieve_chunks(request, result, metadata_chunks)
                   answered == generate_answer(request.query, relevant_chunks, llm_ok)
               IN  /\ store' = [store EXCEPT ![Api] = vector_store]
                   /\ response' =
                        [kind |-> "query", code |-> 200, request |-> request,
                         result |-> result,
                         db_queried |-> valid_vector_ids(result) # <<>>,
                         relevant_chunks |-> relevant_chunks,
                         answer |-> answered.answer, sources |-> answered.sources,
                         llm_called |-> answered.llm_called]
  /\ UNCHANGED <<chunked, uploads, workers, documents, text_chunks, disk, model_dim, pc,
                 run, tasks, nextTask, restarts, hist, ret>>

\* The response is sent
Respond ==
  /\ response # NoResp
  /\ response' = NoResp
  /\ UNCHANGED <<chunked, uploads, workers, documents, text_chunks, disk, store,
                 model_dim, pc, run, tasks, nextTask, restarts, hist, ret>>

\* The task identifiers the ingest route has handed out: the tasks are queued
\* from the start and delivered to a worker in order
Submitted == 1..MaxTasks

\* A task identifier that was never handed out
UnknownTask == 0

\* The key under which the result backend keeps the record of a task
get_key_for_task(task_id) == <<"celery-task-meta-", task_id>>

\* The keys the result backend holds
BackendKeys(records) ==
  {get_key_for_task(t) : t \in {u \in DOMAIN records : records[u] # NoTask}}

\* task_result.backend.get(key): whether a value is stored under the key
backend_get(records, key) == key \in BackendKeys(records)

\* AsyncResult(task_id).state: the state as it was recorded (update_state was
\* given status.value, the lower-case name), Celery's PENDING without a record
AsyncResultState(records, task_id) ==
  IF backend_get(records, get_key_for_task(task_id))
    THEN records[task_id].status ELSE "PENDING"

\* The TaskStatus get_task_status maps a state to: it compares the state with
\* Celery's upper-case names, and anything else is an unexpected state
current_status(state) ==
  IF state = "PENDING" THEN "pending"
  ELSE IF state = "RECEIVED" THEN "received"
  ELSE IF state = "STARTED" THEN "started"
  ELSE IF state = "PROCESSING" THEN "processing"
  ELSE IF state = "SUCCESS" THEN "success"
  ELSE "failure"

\* get_task_status: 404 when the state is PENDING and nothing is stored under
\* the task id itself.  Else the response is built from the mapped status and
\* overlaid with the record (info): the record's status replaces the mapped
\* one; 'errors' is the record's, or str(info) when the MAPPED status is
\* failure and the record has none.  A record with 'artifacts' (a dict) does
\* not validate as TaskStatusResponse (artifacts: List[ArtifactModel]).
get_task_status(records, task_id) ==
  LET state == AsyncResultState(records, task_id)
      recorded == backend_get(records, get_key_for_task(task_id))
      info == records[task_id]
  IN  IF state = "PENDING" /\ ~backend_get(records, <<"", task_id>>)
        THEN [kind |-> "task", code |-> 404, task_id |-> task_id, state |-> state]
      ELSE IF recorded /\ info.artifacts
        THEN [kind |-> "task", code |-> 500, task_id |-> task_id, state |-> state]
      ELSE [kind |-> "task", code |-> 200, task_id |-> task_id, state |-> state,
            status |-> IF recorded THEN info.status ELSE current_status(state),
            progress_percent |-> IF recorded /\ info.progress >= 0
                                   THEN info.progress ELSE 0,
            errors |-> IF recorded /\ info.errors THEN "errors"
                       ELSE IF current_status(state) = "failure" THEN "str(info)"
                       ELSE "none"]

\* GET /task/{task_id}
GetTaskStatus ==
  /\ response = NoResp
  /\ \E task_id \in Submitted \cup {UnknownTask} :
       response' = get_task_status(tasks, task_id)
  /\ UNCHANGED <<chunked, uploads, workers, documents, text_chunks, disk, store,
                 model_dim, pc, run, tasks, nextTask, restarts, hist, ret>>

NextQuery ==
  \/ \E w \in workers : Begin(w)
  \/ \E w \in workers : GetServices(w)
  \/ \E w \in workers : CreateDocument(w)
  \/ \E w \in workers : PrepareAudio(w)
  \/ \E w \in workers : SplitAudio(w)
  \/ \E w \in workers : TranscribeSegment(w)
  \/ \E w \in workers : ChunkTranscript(w)
  \/ \E w \in workers : EmbedAndAdd(w)
  \/ \E w \in workers : ExtractFrames(w)
  \/ \E w \in workers : AnalyzeFrames(w)
  \/ \E w \in workers : FinalizeCommit(w)
  \/ \E w \in workers : SaveIndex(w)
  \/ \E w \in workers : ProcessImage(w)
  \/ \E w \in workers : HandleFailure(w)
  \/ \E w \in workers : TaskSuccess(w)
  \/ \E w \in workers : TaskFailure(w)
  \/ QuerySystem
  \/ GetTaskStatus
  \/ Respond

\* One ingestion worker and the API process; the upload is one short recording
InitQuery ==
  /\ workers = {"w1"}
  /\ documents = <<>>
  /\ text_chunks = {}
  /\ disk = NoFile
  /\ store = [p \in Processes |-> NoStore]
  /\ model_dim = [p \in Processes |-> 384]
  /\ pc = [w \in Workers |-> "idle"]
  /\ run = [w \in Workers |-> NoRun]
  /\ tasks = [t \in 1..MaxTasks |-> NoTask]
  /\ nextTask = 1
  /\ restarts = 0
  /\ hist = <<>>
  /\ ret = NoRet
  /\ response = NoResp
  /\ chunked = NoChunked
  /\ uploads = {<<RespEmpty, RespHi>>}

SpecQuery == InitQuery /\ [][NextQuery]_vars

\* ------------------------------------------------------------------------
\* The TextChunker on its own
\* ------------------------------------------------------------------------

\* A chunker with a small chunk_size and chunk_overlap
SmallChunker == TextChunker(8, 3)

\* Paragraphs: two that fit, one of two sentences that fits, one of several
\* sentences that is too long, one sentence that is too long, and a short
\* sentence followed by a long one
Paragraphs ==
  { <<"k", ".", " ", "l", "l", "l", "l", "l", "l", "l", "l", "l", "l", "l", "l", "l", "l">>,
    <<"a", "a", "a", "a", "a", "a">>,
    <<"b", "b", "b", "b", "b", "b">>,
    <<"c", "c", ".", " ", "d", "d">>,
    <<"e", "e", ".", " ", "f", "f", ".", " ", "g", "g", ".", " ", "h", "h">>,
    <<"i", "i", "i", "i", "i", "i", "i", "i", "i", "i">> }

\* xs[1] sep xs[2] sep ... : sep.join(xs)
RECURSIVE Join(_, _)
Join(xs, sep) ==
  IF xs = <<>> THEN <<>>
  ELSE IF Len(xs) = 1 THEN xs[1]
  ELSE xs[1] \o sep \o Join(Tail(xs), sep)

\* Texts that are empty or only whitespace
Blanks == {<<>>, <<" ">>, <<" ", "\n", "\n", " ">>}

\* Short utterances: two of them fit one chunk of SmallChunker
Utterances == {<<"j", "j">>, <<"k", "k">>}

\* The (start, end) a provider gives a timed part: it counts from the start
\* of the audio segment it was sent, so the stamps of a combined transcript
\* start again at 0
Stamps == {<<0, 5>>, <<5, 10>>}

\* Texts of up to MaxParagraphs paragraphs, a blank line between two, and
\* texts without content
Texts == {Join(ps, NL2) : ps \in SeqsUpTo(Paragraphs, MaxParagraphs)} \cup Blanks

\* Transcripts of up to MaxParagraphs segments, each 5 seconds after the one
\* before; transcripts of short or blank segments with any stamps; and
\* transcripts without segments
Transcripts ==
  {[transcript |-> Join(ps, <<" ">>),
    segments |-> [k \in 1..Len(ps) |-> Segment(ps[k], 5 * (k - 1), 5 * k)]] :
     ps \in SeqsUpTo(Paragraphs, MaxParagraphs)}
  \cup {[transcript |-> Strip(Join(ps, <<" ">>)),
         segments |-> [k \in 1..Len(ps) |-> Segment(ps[k], ts[k][1], ts[k][2])]] :
          ps \in SeqsUpTo(Utterances \cup {<<" ">>}, MaxParagraphs),
          ts \in [1..MaxParagraphs -> Stamps]}
  \cup {[transcript |-> p, segments |-> <<>>] : p \in Paragraphs \cup Blanks}

\* chunker.chunk_text(text)
ChunkTextCall ==
  /\ \E text \in Texts :
       chunked' = [fn |-> "chunk_text", self |-> SmallChunker, text |-> text,
                   chunks |-> chunk_text(SmallChunker, text)]
  /\ UNCHANGED <<response, uploads, workers, documents, text_chunks, disk,
                 store, model_dim, pc, run, tasks, nextTask, restarts, hist, ret>>

\* chunker.chunk_transcript(transcript_data)
ChunkTranscriptCall ==
  /\ \E transcript_data \in Transcripts :
       chunked' = [fn |-> "chunk_transcript", self |-> SmallChunker,
                   transcript_data |-> transcript_data,
                   chunks |-> chunk_transcript(SmallChunker, transcript_data)]
  /\ UNCHANGED <<response, uploads, workers, documents, text_chunks, disk,
                 store, model_dim, pc, run, tasks, nextTask, restarts, hist, ret>>

NextChunk ==
  \/ ChunkTextCall
  \/ ChunkTranscriptCall

\* A process that calls the chunker directly
SpecChunk == Init /\ [][NextChunk]_vars

\* ------------------------------------------------------------------------
\* Properties
\* ------------------------------------------------------------------------

\* The committed TextChunk rows of Document d
RowsOf(d) == {c \in text_chunks : c.document_id = d}

\* The elements of a finite set of numbers in ascending order
RECURSIVE Sorted(_)
Sorted(S) == IF S = {} THEN <<>> ELSE <<Min(S)>> \o Sorted(S \ {Min(S)})

\* C1: in every committed state a Document with status 'completed' has exactly
\* one committed row per chunk the chunker produced and per captioned frame of
\* its run: the k-th staged text is the text of the row at the k-th vector ID
\* the run was given, and there are no other rows.
C1_CompletedHasEveryChunk ==
  \A d \in 1..Len(documents) :
    documents[d].status = "completed" =>
      LET ids == Sorted(hist[d].added)
          planned == hist[d].planned
      IN  /\ planned # <<>>
          /\ Len(ids) = Len(planned)
          /\ Cardinality(RowsOf(d)) = Len(planned)
          /\ \A k \in 1..Len(planned) :
               \E c \in RowsOf(d) :
                 c.vector_id = ids[k] /\ c.text_content = planned[k]

\* A completed video Document with two transcript chunks and a frame caption
C1_Witness ==
  \E d \in 1..Len(documents) :
    /\ documents[d].status = "completed"
    /\ documents[d].doc_type = "video"
    /\ Cardinality(RowsOf(d)) >= 3

\* C2: 'completed' and 'failed' are terminal: no step changes the committed
\* status of a Document that is 'completed' or 'failed'.
C2_TerminalStatus ==
  [][\A d \in 1..Len(documents) :
       documents[d].status \in {"completed", "failed"} =>
         documents'[d].status = documents[d].status]_vars

\* C3: with one ingestion worker, between runs, every vector position of the
\* worker's index is referenced by exactly one TextChunk row, or the vector
\* was added by the run of a Document whose status is 'failed'.
C3_LinkedOrFailed ==
  \A w \in workers :
    (pc[w] = "idle" /\ store[w].loaded) =>
      \A id \in IdsOf(store[w].index) :
        \/ Cardinality({c \in text_chunks : c.vector_id = id}) = 1
        \/ documents[store[w].index.vecs[id + 1].doc].status = "failed"

\* Between runs the index holds a linked vector of a completed Document and
\* an unlinked vector of a failed one
C3_Witness ==
  \E w \in workers :
    /\ pc[w] = "idle"
    /\ \E i, j \in IdsOf(store[w].index) :
         /\ documents[store[w].index.vecs[i + 1].doc].status = "completed"
         /\ \E c \in text_chunks : c.vector_id = i
         /\ documents[store[w].index.vecs[j + 1].doc].status = "failed"
         /\ ~\E c \in text_chunks : c.vector_id = j

\* C4: an exception raised in steps 2-8 reaches the handler and nothing else:
\* when the orchestrator has re-raised it, the staged rows are rolled back and
\* the Document is committed 'failed'; once the task has ended that way the
\* Document stays 'failed' and the task's record says failure.
C4_FailureHandled ==
  /\ \A w \in workers :
       /\ run[w].exc # "none" => pc[w] \in {"except", "raised"}
       /\ (pc[w] = "raised" /\ run[w].doc # 0) =>
            /\ run[w].exc # "none"
            /\ run[w].pending = <<>>
            /\ documents[run[w].doc].status = "failed"
  /\ \A d \in 1..Len(documents) :
       hist[d].ended = "raised" =>
         /\ documents[d].status = "failed"
         /\ tasks[hist[d].task].status = "failure"
         /\ tasks[hist[d].task].errors

\* The index save raised after the finalizing commit, and the task has
\* recorded the failure
C4_Witness ==
  \E d \in 1..Len(documents) :
    /\ hist[d].ended = "raised"
    /\ RowsOf(d) # {}
    /\ tasks[hist[d].task].status = "failure"

\* C5: when the transcription of a segment raises, no vector is added for the
\* Document and no row of it is committed, and after the handler its status
\* is 'failed'; a run that ended in an exception without having been given a
\* vector ID never has a row.
C5_TranscriptionFailure ==
  /\ \A w \in workers :
       run[w].exc = "transcribe" =>
         /\ run[w].vector_ids = <<>>
         /\ hist[run[w].doc].added = {}
         /\ RowsOf(run[w].doc) = {}
         /\ \A id \in IdsOf(store[w].index) :
              store[w].index.vecs[id + 1].doc # run[w].doc
         /\ pc[w] = "raised" => documents[run[w].doc].status = "failed"
  /\ \A d \in 1..Len(documents) :
       (hist[d].ended = "raised" /\ hist[d].added = {}) =>
         /\ documents[d].status = "failed"
         /\ RowsOf(d) = {}

\* The transcription of the second of two segments raised and was handled
C5_Witness ==
  \E w \in workers :
    /\ pc[w] = "raised"
    /\ run[w].exc = "transcribe"
    /\ run[w].i = 1
    /\ Len(run[w].segment_paths) = 2

\* C6: after the failure handler the vectors the run was given are still at
\* their IDs in the worker's index, and no TextChunk row references them.
C6_OrphansUnlinked ==
  \A w \in workers :
    (pc[w] = "raised" /\ run[w].doc # 0) =>
      \A id \in hist[run[w].doc].added :
        /\ id \in IdsOf(store[w].index)
        /\ store[w].index.vecs[id + 1].doc = run[w].doc
        /\ ~\E c \in text_chunks : c.vector_id = id

\* C6, the part that holds: the failure handler changes no index and no file
C6_HandlerKeepsIndex ==
  [][\A w \in workers :
       (pc[w] = "except" /\ pc'[w] = "raised") => (store' = store /\ disk' = disk)]_vars
\* A well-shaped batch for the store of the last direct call
WellShaped == ret.vectors.ndim = 2 /\ ret.vectors.d = ret.embedding_dim

\* C7: for every well-shaped batch of N vectors, all-zero ones included, added
\* when the index holds S vectors, add_vectors returns the IDs S..S+N-1 in
\* order and the index size becomes S+N.
C7_AddReturnsIds ==
  (ret.called /\ WellShaped) =>
    /\ ~ret.exc
    /\ ret.ids = Range(ret.size_before, Len(ret.vectors.rows))
    /\ ret.size_after = ret.size_before + Len(ret.vectors.rows)

\* s is an initial part of t
IsPrefix(s, t) == Len(s) <= Len(t) /\ \A k \in 1..Len(s) : s[k] = t[k]

C9_MismatchFailsFast ==
  [][\A w \in workers :
       (~store[w].loaded /\ disk.exists /\ disk.d # model_dim[w]) =>
         ~store'[w].loaded]_vars
\* C10: for any interleaving of two ingestion workers no vector ID is assigned
\* to two different vectors, and when both have finished the persisted index
\* holds, at every vector_id of every completed Document's rows, the
\* embedding of that row's text.
C10_SingleWriter ==
  /\ \A d1, d2 \in 1..Len(documents) :
       d1 # d2 => hist[d1].added \cap hist[d2].added = {}
  /\ (\A w \in workers : pc[w] = "idle") =>
       \A c \in text_chunks :
         documents[c.document_id].status = "completed" =>
           /\ c.vector_id < Len(disk.vecs)
           /\ disk.vecs[c.vector_id + 1] = Vec(c.text_content, c.document_id)
\* Document d is committed 'completed' and the persisted index holds the
\* vectors its run was given
Persisted(d) ==
  /\ documents[d].status = "completed"
  /\ hist[d].added # {}
  /\ \A id \in hist[d].added :
       id < Len(disk.vecs) /\ disk.vecs[id + 1].doc = d

\* C11: a query served after a worker has committed a Document 'completed'
\* and persisted the index searches an index that holds that Document's
\* vectors, also when the API process was already running.
C11_QueryIndexRefreshed ==
  [][(response = NoResp /\ response'.kind = "query") =>
       \A d \in 1..Len(documents) :
         Persisted(d) =>
           \A id \in hist[d].added :
             /\ id \in IdsOf(store'[Api].index)
             /\ store'[Api].index.vecs[id + 1].doc = d]_vars

\* C12: the list retrieve_chunks returns has non-increasing scores, and when
\* the search yields only sentinel IDs it is empty, nothing is raised and the
\* metadata store is not queried.
C12_SortedOrEmpty ==
  response.kind = "query" =>
    LET chunks == response.relevant_chunks
    IN  /\ \A k \in 1..(Len(chunks) - 1) : chunks[k].score >= chunks[k + 1].score
        /\ (\A k \in 1..Len(response.result) : response.result[k].id = -1) =>
             /\ chunks = <<>>
             /\ ~response.db_queried
             /\ response.code = 200

\* retrieve_chunks returned several chunks of different scores
C12_Witness ==
  /\ response.kind = "query"
  /\ Len(response.relevant_chunks) >= 3
  /\ response.relevant_chunks[1].score > response.relevant_chunks[3].score

\* The position of a vector ID in a search result
RankOf(result, vector_id) ==
  CHOOSE k \in 1..Len(result) : result[k].id = vector_id

\* C13: two returned chunks of equal score are in the order of their ranks in
\* the index's search result.
C13_TiesByIndexRank ==
  response.kind = "query" =>
    LET chunks == response.relevant_chunks
    IN  \A i, j \in 1..Len(chunks) :
          (i < j /\ chunks[i].score = chunks[j].score) =>
            RankOf(response.result, chunks[i].vector_id)
              < RankOf(response.result, chunks[j].vector_id)

\* A Document satisfies the filters that are given
Satisfies(doc, filters) ==
  /\ filters.source_id # 0 => doc.source_id = filters.source_id
  /\ filters.doc_type # "" => doc.doc_type = filters.doc_type

\* C14: every chunk retrieve_chunks returns belongs to a Document that
\* satisfies all the filters of the request.
C14_FiltersApplied ==
  response.kind = "query" =>
    \A k \in 1..Len(response.relevant_chunks) :
      Satisfies(documents[response.relevant_chunks[k].document_id],
                response.request.filters)
\* A text without a sentence break and without a paragraph break
SingleSentence(text) == Find(text, DotSp, 0) = -1 /\ Find(text, NL2, 0) = -1

\* C15: every chunk of chunk_text and every chunk text of chunk_transcript
\* is at most chunk_size long, unless it is one single sentence, or one
\* single segment, that alone is longer.
C15_ChunkWithinSize ==
  /\ chunked.fn = "chunk_text" =>
       \A k \in 1..Len(chunked.chunks) :
         \/ Len(chunked.chunks[k]) <= chunked.self.chunk_size
         \/ SingleSentence(chunked.chunks[k])
  /\ chunked.fn = "chunk_transcript" =>
       \A k \in 1..Len(chunked.chunks) :
         \/ Len(chunked.chunks[k].text) <= chunked.self.chunk_size
         \/ SingleSentence(chunked.chunks[k].text)
         \/ \E i \in 1..Len(chunked.transcript_data.segments) :
              chunked.chunks[k].text = Strip(chunked.transcript_data.segments[i].text)

\* The characters of a text that are not whitespace
NonWhitespace(text) == SelectSeq(text, LAMBDA c : ~IsSpace(c))

\* s ends with t
IsSuffix(t, s) ==
  Len(t) <= Len(s) /\ SubSeq(s, Len(s) - Len(t) + 1, Len(s)) = t

\* What the chunks k..Len(chunks) can give when from each a prefix that ends
\* the chunk before it (the overlap) is removed and the rests are concatenated
RECURSIVE Reconstructions(_, _)
Reconstructions(chunks, k) ==
  IF k > Len(chunks) THEN {<<>>}
  ELSE LET this == NonWhitespace(chunks[k])
           cuts == IF k = 1 THEN {0}
                   ELSE {o \in 0..Len(this) :
                           IsSuffix(SubSeq(this, 1, o), NonWhitespace(chunks[k - 1]))}
       IN  {SubSeq(this, o + 1, Len(this)) \o rest :
              o \in cuts, rest \in Reconstructions(chunks, k + 1)}

\* C16: the chunks of chunk_text, each without its overlap prefix,
\* concatenate to the input: no character that is not whitespace is lost,
\* added or duplicated.
C16_Reconstructs ==
  chunked.fn = "chunk_text" =>
    NonWhitespace(chunked.text) \in Reconstructions(chunked.chunks, 1)
\* C17: the start_time of consecutive chunks of chunk_transcript is
\* non-decreasing, also for the transcript process_audio_source combines
\* from the transcription results of several audio segments.
C17_StartTimesAscend ==
  \A w \in workers :
    LET chunks == run[w].chunks_with_times
    IN  \A k \in 1..(Len(chunks) - 1) : chunks[k].start <= chunks[k + 1].start

\* The two sentences of the two-segment recording, as the transcript has them
HelloTest == Hello \o <<" ">> \o Test

\* sub occurs in text
Contains(text, sub) == Find(text, sub, 0) # -1

\* C18: ingesting the recording of two 15-second segments that read "Hello
\* world." and "This is a test." ends with exactly one Document, 'completed',
\* and a TextChunk that contains both sentences and ends at second 30.
C18_EndToEnd ==
  \A d \in 1..Len(documents) :
    (documents[d].status = "completed" /\ hist[d].planned # <<>>
       /\ hist[d].planned[1] = HelloTest) =>
      /\ Cardinality({e \in 1..Len(documents) :
                        documents[e].source_id = documents[d].source_id}) = 1
      /\ \E c \in RowsOf(d) :
           /\ Contains(c.text_content, Hello)
           /\ Contains(c.text_content, Test)
           /\ c.end_time = 30
\* C19: a query with top_k = 5 served from an empty index gets the response
\* sources = [] with the fixed fallback answer; nothing is raised and the LLM
\* provider is not called.
C19_EmptyIndexFallback ==
  (response.kind = "query" /\ response.request.top_k = 5
     /\ store[Api].index.vecs = <<>>) =>
    /\ response.code = 200
    /\ response.sources = <<>>
    /\ response.answer = "fallback"
    /\ ~response.llm_called

\* A query with top_k = 5 was served from an empty index and the search gave
\* five sentinels
C19_Witness ==
  /\ response.kind = "query"
  /\ response.request.top_k = 5
  /\ store[Api].loaded
  /\ store[Api].index.vecs = <<>>
  /\ Len(response.result) = 5
  /\ \A k \in 1..5 : response.result[k] = Sentinel
  /\ response.answer = "fallback"

\* C20: polling a task identifier that was never submitted yields not-found,
\* and polling a submitted task that has no recorded state yet is reported as
\* pending, not as not-found.
C20_UnknownDistinctFromQueued ==
  response.kind = "task" =>
    /\ response.task_id \notin Submitted => response.code = 404
    /\ (response.task_id \in Submitted /\ response.state = "PENDING") =>
         (response.code = 200 /\ response.status = "pending")

\* C20, the part that holds: an identifier that was never submitted yields
\* not-found
C20_UnknownNotFound ==
  (response.kind = "task" /\ response.task_id \notin Submitted) => response.code = 404

\* The values of TaskStatus
TaskStatus == {"pending", "received", "started", "processing", "success", "failure"}

C22_ImageDocument ==
  [][\A w \in workers :
       (run[w].doc_type = "image" /\ pc[w] = "returned" /\ pc'[w] = "idle"
          /\ restarts' = restarts) =>
         \E d \in 1..Len(documents') :
           /\ documents'[d].source_id = run[w].source_id
           /\ documents'[d].doc_type = "image"
           /\ \/ documents'[d].status = "failed"
              \/ /\ documents'[d].status = "completed"
                 /\ \E c \in text_chunks' :
                      /\ c.document_id = d
                      /\ store'[w].loaded
                      /\ c.vector_id \in IdsOf(store'[w].index)]_vars

\* A committed Document row has the source_id of the run of process w
HasDocument(w) ==
  \E d \in 1..Len(documents) : documents[d].source_id = run[w].source_id

\* C23: no two Document rows have the same source_id; a run of
\* process_audio_source whose source_id already has a Document row fails at
\* the commit of its own row: that step and the task's failure step add no
\* row, change no Document and no TextChunk, add no vector and write no index
\* file, and the task's record says failure.
C23_OneDocumentPerSource ==
  [][/\ \A d, e \in 1..Len(documents') :
          documents'[d].source_id = documents'[e].source_id => d = e
     /\ \A w \in workers :
          (pc[w] = "create" /\ pc'[w] # "create" /\ HasDocument(w)
             /\ restarts' = restarts) =>
            /\ pc'[w] = "raised"
            /\ run'[w].doc = 0
            /\ documents' = documents
            /\ text_chunks' = text_chunks
            /\ store' = store
            /\ disk' = disk
     /\ \A w \in workers :
          (pc[w] = "raised" /\ run[w].doc = 0 /\ pc'[w] = "idle"
             /\ restarts' = restarts) =>
            /\ tasks'[run[w].task].status = "failure"
            /\ documents' = documents
            /\ text_chunks' = text_chunks
            /\ store' = store
            /\ disk' = disk]_vars

\* The commit of a second row has raised for a source_id whose Document is
\* 'completed' and has rows
C23_Witness ==
  \E w \in workers :
    /\ pc[w] = "raised"
    /\ run[w].doc = 0
    /\ \E d \in 1..Len(documents) :
         /\ documents[d].source_id = run[w].source_id
         /\ documents[d].status = "completed"
         /\ RowsOf(d) # {}

C25_FinalizeAtomic ==
  [][/\ \A d \in 1..Len(documents') :
          (\E c \in text_chunks' : c.document_id = d) =>
            documents'[d].status # "processing"
     /\ \A w \in workers :
          (text_chunks' # text_chunks /\ pc[w] = "finalize" /\ pc'[w] = "save") =>
              /\ documents[run[w].doc].status = "processing"
              /\ documents'[run[w].doc].status = "completed"
              /\ text_chunks' \ text_chunks =
                   {run[w].pending[k] : k \in 1..Len(run[w].pending)}
              /\ Cardinality(text_chunks' \ text_chunks) = Len(hist[run[w].doc].planned)
              /\ store' = store
     /\ (text_chunks' # text_chunks) =>
          \E w \in workers : pc[w] = "finalize" /\ pc'[w] = "save"
     /\ (disk' # disk) =>
          \E w \in workers :
            /\ pc[w] = "save"
            /\ documents[run[w].doc].status = "completed"
            /\ Cardinality(RowsOf(run[w].doc)) = Len(hist[run[w].doc].planned)
            /\ hist[run[w].doc].added \subseteq IdsOf(store[w].index)
     /\ \A w \in workers :
          (pc[w] \in {"save", "returned"} /\ restarts' = restarts) =>
            store'[w] = store[w]]_vars

\* The index file is being written by the run of a video whose transcript
\* rows and frame row were committed with its status
C25_Witness ==
  \E w \in workers :
    /\ pc[w] = "returned"
    /\ run[w].doc_type = "video"
    /\ documents[run[w].doc].status = "completed"
    /\ Cardinality(RowsOf(run[w].doc)) >= 3
    /\ disk.exists

\* The positions of a run at or after the first processing stage
Stages ==
  {"prepare", "split", "transcribe", "chunk", "embed", "extract", "analyze",
   "finalize", "save", "except"}

\* C26: whenever a run is at audio preparation or at a later stage, or a
\* stage of it has raised, a committed Document row with the run's source_id
\* exists; it is 'processing' when audio preparation is invoked.
C26_DocumentBeforeStages ==
  \A w \in workers :
    /\ (pc[w] \in Stages \/ run[w].exc # "none") =>
         /\ run[w].doc \in 1..Len(documents)
         /\ documents[run[w].doc].source_id = run[w].source_id
    /\ pc[w] = "prepare" => documents[run[w].doc].status = "processing"
    /\ pc[w] = "raised" => HasDocument(w)

\* Audio preparation, the first stage, has raised, and the run's Document row
\* is committed with status 'processing'
C26_Witness ==
  \E w \in workers :
    /\ pc[w] = "except"
    /\ run[w].exc = "prepare"
    /\ documents[run[w].doc].source_id = run[w].source_id
    /\ documents[run[w].doc].status = "processing"

\* C27: for every query and every order in which the metadata store returns
\* the rows, each chunk retrieve_chunks returns has the vector_id of a hit of
\* the search that is not a sentinel, and the distance of that hit as its
\* score; no vector_id appears twice; a hit appears exactly when a TextChunk
\* row has its vector_id, so a hit without a row is left out and the list
\* may be shorter than top_k.
C27_ScoreOfItsHit ==
  [][(response = NoResp /\ response'.kind = "query") =>
       LET result == response'.result
           chunks == response'.relevant_chunks
       IN  /\ \A k \in 1..Len(chunks) :
                \E i \in 1..Len(result) :
                  /\ result[i].id # -1
                  /\ result[i].id = chunks[k].vector_id
                  /\ result[i].distance = chunks[k].score
           /\ \A j, k \in 1..Len(chunks) :
                chunks[j].vector_id = chunks[k].vector_id => j = k
           /\ \A i \in 1..Len(result) :
                result[i].id # -1 =>
                  ((\E c \in text_chunks : c.vector_id = result[i].id)
                     <=> (\E k \in 1..Len(chunks) : chunks[k].vector_id = result[i].id))
           /\ Len(chunks) <= response'.request.top_k]_vars

\* A query whose search hit a vector without a TextChunk row and vectors with
\* rows at two different distances
C27_Witness ==
  /\ response.kind = "query"
  /\ \E j, k \in 1..Len(response.relevant_chunks) :
       response.relevant_chunks[j].score # response.relevant_chunks[k].score
  /\ \E i \in 1..Len(response.result) :
       /\ response.result[i].id # -1
       /\ \A k \in 1..Len(response.relevant_chunks) :
            response.relevant_chunks[k].vector_id # response.result[i].id

\* C28: serving a query changes no Document, no TextChunk row, no index file
\* and no worker's index; the API process's own index is the one its
\* VectorStore loaded when it was constructed, and a query on a constructed
\* store leaves it as it is.  A Document's status changes only in a step of
\* the orchestrator: the creating commit, the finalizing commit or the
\* failure handler of a worker's run.
C28_QueryChangesNothing ==
  [][/\ (response = NoResp /\ response'.kind = "query") =>
          /\ documents' = documents
          /\ text_chunks' = text_chunks
          /\ disk' = disk
          /\ \A w \in Workers : store'[w] = store[w]
          /\ store'[Api] = get_vector_store(store[Api], disk, model_dim[Api])
          /\ store[Api].loaded => store'[Api] = store[Api]
     /\ (documents' # documents) =>
          \E w \in workers :
            /\ pc[w] \in {"create", "finalize", "except"}
            /\ pc'[w] # pc[w]]_vars

\* A query is served from a constructed store that holds vectors, while the
\* metadata store holds a 'completed' Document and its rows
C28_Witness ==
  /\ response.kind = "query"
  /\ Len(response.relevant_chunks) >= 1
  /\ store[Api].loaded
  /\ IdsOf(store[Api].index) # {}
  /\ \E d \in 1..Len(documents) : documents[d].status = "completed"

\* C29: every chunk of chunk_transcript has as start_time the least 'start'
\* and as end_time the greatest 'end' of the segments it absorbed, whatever
\* the order of the segments' timestamps.
C29_MinStartMaxEnd ==
  (chunked.fn = "chunk_transcript" /\ chunked.transcript_data.segments # <<>>) =>
    LET segments == chunked.transcript_data.segments
        groups == absorbed(chunked.self, segments)
    IN  /\ Len(groups) = Len(chunked.chunks)
        /\ \A k \in 1..Len(groups) :
             groups[k] # {} =>
               /\ chunked.chunks[k].start = Min({segments[i].start : i \in groups[k]})
               /\ chunked.chunks[k].end = Max({segments[i].end : i \in groups[k]})

\* C30: chunk_text returns no chunk for a text that is empty or only
\* whitespace, and chunk_transcript returns no chunk for a transcript whose
\* text and whose segments' texts are all empty or only whitespace.
C30_BlankGivesEmpty ==
  /\ (chunked.fn = "chunk_text" /\ Strip(chunked.text) = <<>>) =>
       chunked.chunks = <<>>
  /\ (chunked.fn = "chunk_transcript"
        /\ Strip(chunked.transcript_data.transcript) = <<>>
        /\ \A i \in 1..Len(chunked.transcript_data.segments) :
             Strip(chunked.transcript_data.segments[i].text) = <<>>) =>
       chunked.chunks = <<>>

\* C30, the part that holds: chunk_text on a text without content, and
\* chunk_transcript without segments on such a text, return no chunk
C30_BlankTextGivesEmpty ==
  /\ (chunked.fn = "chunk_text" /\ Strip(chunked.text) = <<>>) =>
       chunked.chunks = <<>>
  /\ (chunked.fn = "chunk_transcript"
        /\ Strip(chunked.transcript_data.transcript) = <<>>
        /\ chunked.transcript_data.segments = <<>>) =>
       chunked.chunks = <<>>

\* The slack _get_overlap allows itself when it looks for a word break
OverlapSlack == 10

\* C31: the overlap that seeds the next chunk when chunk_text finalizes a chunk
\* on overflow is, up to surrounding whitespace, a suffix of the finalized
\* chunk, and is at most chunk_overlap + OverlapSlack characters long,
\* however long the finalized chunk is.
C31_OverlapBounded ==
  chunked.fn = "chunk_text" =>
    LET curs == overflows(chunked.self, chunked.text)
    IN  \A k \in 1..Len(curs) :
          LET overlap_text == get_overlap(chunked.self, curs[k])
          IN  /\ IsSuffix(Strip(overlap_text), Strip(curs[k]))
              /\ Len(overlap_text) <= chunked.self.chunk_overlap + OverlapSlack

\* C31, the part that holds: the overlap is, up to surrounding whitespace, a
\* suffix of the finalized chunk
C31_OverlapIsSuffix ==
  chunked.fn = "chunk_text" =>
    LET curs == overflows(chunked.self, chunked.text)
    IN  \A k \in 1..Len(curs) :
          IsSuffix(Strip(get_overlap(chunked.self, curs[k])), Strip(curs[k]))

\* C32: when the transcription of a segment returns an empty transcript, the
\* loop step leaves the combined transcript text and the combined segment list
\* as they are and goes on to the next segment (or, after the last one, to
\* chunking); a run fails for want of text only when every segment of it was
\* empty.
C32_EmptySegmentSkipped ==
  [][\A w \in workers :
       /\ (pc[w] = "transcribe" /\ run'[w].i = run[w].i + 1
             /\ run[w].segment_paths[run[w].i + 1].transcript = <<>>) =>
            /\ run'[w].full_transcript_text = run[w].full_transcript_text
            /\ run'[w].combined_segments = run[w].combined_segments
            /\ run'[w].exc = "none"
            /\ documents' = documents
            /\ pc'[w] = IF run'[w].i = Len(run[w].segment_paths)
                          THEN "chunk" ELSE "transcribe"
       /\ run'[w].exc = "chunk" =>
            \A k \in 1..Len(run'[w].segment_paths) :
              run'[w].segment_paths[k].transcript = <<>>]_vars

\* The loop has ended for a recording whose first segment was empty and whose
\* second was not: the combined transcript is the second segment's text
C32_Witness ==
  \E w \in workers :
    /\ pc[w] = "chunk"
    /\ Len(run[w].segment_paths) = 2
    /\ run[w].segment_paths[1].transcript = <<>>
    /\ run[w].full_transcript_text = Hi \o <<" ">>
    /\ Len(run[w].combined_segments) = 1

\* C33: in every committed state a Document whose status is 'failed' has no
\* TextChunk row.
C33_FailedHasNoRows ==
  \A d \in 1..Len(documents) :
    documents[d].status = "failed" => RowsOf(d) = {}

\* C34: no chunk of chunk_transcript has an empty text, whatever the segment
\* list; a first segment longer than chunk_size is not preceded by an empty
\* chunk.
C34_NoEmptyChunk ==
  (chunked.fn = "chunk_transcript" /\ chunked.transcript_data.segments # <<>>) =>
    \A k \in 1..Len(chunked.chunks) : chunked.chunks[k].text # <<>>

\* The stripped texts of the segments that g assigns to chunk k, in input order
SegmentsIn(segments, g, k) ==
  LET idx == SelectSeq([i \in 1..Len(segments) |-> i], LAMBDA i : g[i] = k)
  IN  [j \in 1..Len(idx) |-> Strip(segments[idx[j]].text)]

\* C35: the chunks of chunk_transcript partition the segment list: the
\* segments can be assigned to the chunks, in input order (a later segment
\* never to an earlier chunk), so that the text of every chunk is exactly the
\* texts of its segments, in order, with a space between two; no text of a
\* segment is repeated in the chunk that follows.
C35_Partitions ==
  (chunked.fn = "chunk_transcript" /\ chunked.transcript_data.segments # <<>>) =>
    LET segments == chunked.transcript_data.segments
        chunks == chunked.chunks
    IN  \E g \in [1..Len(segments) -> 1..Len(chunks)] :
          /\ \A i, j \in 1..Len(segments) : i <= j => g[i] <= g[j]
          /\ \A k \in 1..Len(chunks) :
               chunks[k].text = Strip(Join(SegmentsIn(segments, g, k), <<" ">>))

\* Three segments went into two chunks, the first two into the first
C35_Witness ==
  /\ chunked.fn = "chunk_transcript"
  /\ Len(chunked.transcript_data.segments) = 3
  /\ Len(chunked.chunks) = 2
  /\ chunked.chunks[1].text = <<"j", "j", " ", "k", "k">>
  /\ chunked.chunks[2].text = <<"j", "j">>

\* C36: the poll endpoint reports a non-empty 'errors' field only for tasks
\* whose reported status is 'failure'; while the last written record of a task
\* is the 'processing' record of update_task_state, a poll answers with status
\* 'processing' and no errors value.
C36_ErrorsOnlyOnFailure ==
  (response.kind = "task" /\ response.code = 200) =>
    /\ response.errors # "none" => response.status = "failure"
    /\ response.state = "processing" =>
         (response.status = "processing" /\ response.errors = "none")

\* The task records of audio and video runs that hold 'success': the Document
\* of the run is committed 'completed' and its save_index has returned
SuccessAfterReturn ==
  \A d \in 1..Len(hist) :
    tasks[hist[d].task].status = "success" =>
      (documents[d].status = "completed" /\ hist[d].saved)

\* The progress written by a step with a 'processing' or 'success' record is
\* within 0..100 and not below the progress the task had
ProgressNeverFalls ==
  \A t \in 1..MaxTasks :
    (tasks'[t] # tasks[t] /\ tasks'[t].status \in {"processing", "success"}) =>
      /\ tasks'[t].progress \in 0..100
      /\ tasks'[t].progress >= tasks[t].progress

\* C37: for audio and video tasks a 'success' record is written only after
\* process_audio_source has returned, so whenever the state of a task is
\* 'success' the Document of its source is committed 'completed' and
\* save_index has completed; the progress values written before it in a
\* successful run are within [0,100] and never decrease.
C37_SuccessAfterReturn ==
  [](SuccessAfterReturn) /\ [][ProgressNeverFalls]_vars

\* A video run has been reported 'success' after its progress reached 95
C37_Witness ==
  \E d \in 1..Len(hist) :
    /\ tasks[hist[d].task].status = "success"
    /\ tasks[hist[d].task].progress = 100
    /\ documents[d].doc_type = "video"
    /\ hist[d].saved

\* C38: at every moment at which a Document is committed 'completed', the
\* Vector Index on disk holds a vector at each vector_id of the TextChunks of
\* that Document: every such vector_id is smaller than the size of the index
\* on disk, also between the finalizing commit and save_index and if the
\* process stops there.
C38_CompletedIsOnDisk ==
  \A d \in 1..Len(documents) :
    documents[d].status = "completed" =>
      \A c \in RowsOf(d) : disk.exists /\ c.vector_id < Len(disk.vecs)

====
